---- MODULE Spec2Model ----
(***************************************************************************)
(* The quiz session of IndividualTeacher's frontend: the App component     *)
(* (frontend/src/App.tsx, the last revision of the file, lines 972-1627)   *)
(* that owns the quiz lists, the selected quiz, the answers of every quiz  *)
(* and the lifted session state, and the Quiz component                    *)
(* (frontend/src/components/Quiz.tsx) that owns the display order.         *)
(*                                                                         *)
(* One action is one event of the browser's event loop: an event handler   *)
(* or the continuation of an awaited request, followed by React's render   *)
(* and the flush of the passive effects it schedules (React 18 createRoot, *)
(* main.tsx).  Every state of the model is therefore a state in which the  *)
(* reactive effects have settled.  stateRef.current (App.tsx 1025-1029) is *)
(* written by an effect, so inside an action it holds the state the action *)
(* started from: the unprimed variables.                                   *)
(*                                                                         *)
(* Indices are the program's: 0-based, -1 for "none".  Sequences are       *)
(* 1-based, so element i of an array a is a[i + 1].                        *)
(***************************************************************************)
EXTENDS Integers, Sequences, FiniteSets, TLC

(***************************************************************************)
(* Bounds and fixtures                                                     *)
(***************************************************************************)

\* Cap on resetCounter (Quiz.tsx 70), which the code lets grow for as long as
\* the Quiz component stays mounted.
MaxResets == 1

\* Cap on the quizzes a guest generates: guestQuizzes (App.tsx 1286) grows
\* with every one.
MaxGuestQuizzes == 1

\* The indices handleJumpToQuestion is called with are -1..MaxJump; the
\* quizzes below have at most 2 questions.
MaxJump == 2

NULL == "null"

\* A Question (interfaces.ts) reduced to what the session reads: the
\* is_correct flag of each of its answers, in canonical order.
MkQuestion(flags) ==
  [answers |-> [k \in 1..Len(flags) |-> [is_correct |-> flags[k]]]]

MkQuiz(id, questions) == [id |-> id, questions |-> questions]

\* Quiz "A", owned by the user: canonical correct indices [1, 0].
QuizA ==
  MkQuiz("A", << MkQuestion(<<FALSE, TRUE>>),
                 MkQuestion(<<TRUE, FALSE>>) >>)

\* Quiz "A" after an edit in QuizEditor: one question left, with two answers
\* flagged correct.
QuizAEdited == MkQuiz("A", << MkQuestion(<<TRUE, TRUE>>) >>)

\* Quiz "B", public: one question, no answer flagged correct.
QuizB == MkQuiz("B", << MkQuestion(<<FALSE, FALSE>>) >>)

\* Quiz "A" after an edit in QuizEditor that deleted every question; the save
\* checks each question but not that there is one (QuizEditor.tsx 290-315).
QuizAEmptied == MkQuiz("A", << >>)

\* Quiz "G", generated for a guest: kept in the frontend alone.
QuizG == MkQuiz("G", << MkQuestion(<<TRUE, FALSE>>) >>)

QuizIds == {"A", "B", "G"}

\* What GET /api/quizzes?scope=my can answer (App.tsx 1090-1091).
UserResponses == { <<QuizA>>, <<QuizAEdited>>, <<QuizAEmptied>> }

\* What GET /api/quizzes?scope=my answers after the DELETE of the user's one
\* quiz succeeded (App.tsx 1355-1360).
DeletedResponses == { << >> }

\* The statuses a failed GET /api/quizzes?scope=my is told apart by
\* (App.tsx 1096-1108): 401, and any other error.
FailureStatuses == {401, 500}

\* What GET /api/quizzes?scope=public can answer (App.tsx 1127-1128).
PublicResponses == { <<QuizB>> }

\* What GET /api/auth/status can answer (App.tsx 1408-1424).
Users == {"u1"}

(***************************************************************************)
(* State                                                                   *)
(***************************************************************************)
VARIABLES
  \* App.tsx 995-1015
  currentUser, authLoading,
  publicQuizzes, userQuizzes, guestQuizzes,
  currentQuizId,
  allUserAnswers,
  shuffleQuestions, shuffleAnswers,
  currentDisplayIndex, quizFinished, currentScore,
  currentlyDisplayedQuestion,
  \* react-router location (App.tsx 1575-1620)
  route,
  \* Quiz.tsx 67-70 and 109-115, for the mounted Quiz element
  mountedKey,
  displayQuestions, currentDisplayAnswers,
  selectedDisplayAnswerIndex, resetCounter,
  \* requests in flight, by the caller that awaits them
  authReq, userReq, publicReq,
  \* the DELETE request in flight, by the id of its quiz (App.tsx 1355)
  deleteReq,
  \* QuizCreator (src/unnamed/part_001 33-57): "idle", "generating" while
  \* its POST is in flight, "redirecting" while its timer runs
  creator,
  \* the onAnswerUpdate calls of the last event (Quiz.tsx 160)
  emitted

appVars == << currentUser, authLoading, publicQuizzes, userQuizzes,
              guestQuizzes, currentQuizId, allUserAnswers, shuffleQuestions,
              shuffleAnswers, currentDisplayIndex, quizFinished, currentScore,
              currentlyDisplayedQuestion, route >>

quizVars == << mountedKey, displayQuestions, currentDisplayAnswers,
               selectedDisplayAnswerIndex, resetCounter >>

reqVars == << authReq, userReq, publicReq, deleteReq, creator >>

vars == << appVars, quizVars, reqVars, emitted >>

(***************************************************************************)
(* Quiz.tsx: the display projection                                        *)
(***************************************************************************)

\* An exchange that loses shuffled[i]: shuffled[i] = shuffled[j] alone.
SwapOverwrite(s, i, j) ==
  [s EXCEPT ![i] = s[j]]

\* [shuffled[i], shuffled[j]] = [shuffled[j], shuffled[i]]  (Quiz.tsx 13)
Swap(s, i, j) ==
  [s EXCEPT ![i] = s[j], ![j] = s[i]]

\* The loop of shuffleArray (Quiz.tsx 11-14) from position i down: every
\* array it can end with, one per draw j of Math.random in 0..i (1-based
\* here: i runs from Len down to 2, j over 1..i).
RECURSIVE FisherYates(_, _)
FisherYates(shuffled, i) ==
  IF i <= 1
    THEN {shuffled}
    ELSE UNION { FisherYates(Swap(shuffled, i, j), i - 1) : j \in 1..i }

\* shuffleArray (Quiz.tsx 8-16): the set of arrays it can return.
shuffleArray(array) ==
  FisherYates(array, Len(array))

\* questions.map(...) of setupDisplayQuestions (Quiz.tsx 75-86): every
\* question and answer decorated with its original index.
processedQuestions(questions) ==
  [index \in 1..Len(questions) |->
     [originalIndex |-> index - 1,
      answers |-> [ansIndex \in 1..Len(questions[index].answers) |->
                     [originalIndex |-> ansIndex - 1,
                      is_correct |->
                        questions[index].answers[ansIndex].is_correct]]]]

\* setupDisplayQuestions (Quiz.tsx 74-89): the values setDisplayQuestions
\* can receive.
setupDisplayQuestions(questions, shuffleQ) ==
  IF shuffleQ
    THEN shuffleArray(processedQuestions(questions))
    ELSE {processedQuestions(questions)}

\* The null DisplayQuestion.
NoQuestion == [originalIndex |-> -1, answers |-> <<>>]

\* A lookup that shows the last question for an index past the end.
currentDisplayQuestionClamped(dq, index) ==
  IF Len(dq) > 0 /\ index >= 0
    THEN dq[IF index < Len(dq) THEN index + 1 ELSE Len(dq)]
    ELSE NoQuestion

\* currentDisplayQuestion (Quiz.tsx 101-105)
currentDisplayQuestion(dq, index) ==
  IF Len(dq) > 0 /\ index >= 0 /\ index < Len(dq)
    THEN dq[index + 1]
    ELSE NoQuestion

\* currentDisplayAnswers (Quiz.tsx 109-115): the values the memo can take
\* when it is recomputed.
currentDisplayAnswersOf(cdq, shuffleA) ==
  IF cdq = NoQuestion
    THEN { <<>> }
    ELSE IF shuffleA THEN shuffleArray(cdq.answers) ELSE {cdq.answers}

\* Array.prototype.findIndex over a DisplayAnswer[] for the predicate
\* a.originalIndex === wanted (Quiz.tsx 141): first position or -1.
RECURSIVE findIndexFrom(_, _, _)
findIndexFrom(answers, wanted, k) ==
  IF k > Len(answers)
    THEN -1
    ELSE IF answers[k].originalIndex = wanted
           THEN k - 1
           ELSE findIndexFrom(answers, wanted, k + 1)

findOriginalIndex(answers, wanted) == findIndexFrom(answers, wanted, 1)

\* question.answers.findIndex(a => a.is_correct)  (Quiz.tsx 178, 201)
RECURSIVE findCorrectFrom(_, _)
findCorrectFrom(answers, k) ==
  IF k > Len(answers)
    THEN -1
    ELSE IF answers[k].is_correct THEN k - 1
                                  ELSE findCorrectFrom(answers, k + 1)

correctAnswerOriginalIndex(question) == findCorrectFrom(question.answers, 1)

\* userAnswers[i] of a number[]: undefined outside the array.
Undefined == -2

At(userAnswers, i) ==
  IF i >= 0 /\ i < Len(userAnswers) THEN userAnswers[i + 1] ELSE Undefined

\* A lookup that takes the persisted original index for a display position.
newSelectedOriginalIndex(cdq, cda, userAnswers) ==
  IF cdq # NoQuestion /\ Len(cda) > 0
    THEN LET persisted == At(userAnswers, cdq.originalIndex)
         IN IF persisted # -1 /\ persisted # Undefined THEN persisted ELSE -1
    ELSE -1

\* The body of Effect 3 (Quiz.tsx 132-143): the display position of the
\* persisted answer of the current question, or -1.
newSelectedDisplayIndex(cdq, cda, userAnswers) ==
  IF cdq # NoQuestion /\ Len(cda) > 0
    THEN LET persisted == At(userAnswers, cdq.originalIndex)
         IN IF persisted # -1 /\ persisted # Undefined
              THEN findOriginalIndex(cda, persisted)
              ELSE -1
    ELSE -1

\* A styling that reads the is_correct flag of the displayed answer instead
\* of comparing its original index with the correct one.
getReviewClassByFlag(cdq, qs, answers, displayedAnswer) ==
  IF cdq = NoQuestion
    THEN ""
    ELSE LET userAnswerOriginalIndex == At(answers, cdq.originalIndex)
         IN IF userAnswerOriginalIndex = displayedAnswer.originalIndex
              THEN IF displayedAnswer.is_correct
                     THEN "list-group-item-success"
                     ELSE "list-group-item-danger"
              ELSE IF displayedAnswer.is_correct
                     THEN IF /\ userAnswerOriginalIndex # -1
                             /\ userAnswerOriginalIndex # Undefined
                            THEN "list-group-item-info"
                            ELSE "list-group-item-secondary"
                     ELSE ""

\* getReviewClass (Quiz.tsx 196-218) for the current display question cdq,
\* the props questions and userAnswers, and one displayed answer.
getReviewClass(cdq, qs, answers, displayedAnswer) ==
  IF cdq = NoQuestion
    THEN ""
    ELSE LET originalQuestionIndex == cdq.originalIndex
             correctAnswerIndex ==
               IF originalQuestionIndex < Len(qs)
                 THEN correctAnswerOriginalIndex(qs[originalQuestionIndex + 1])
                 ELSE Undefined
             userAnswerOriginalIndex == At(answers, originalQuestionIndex)
         IN IF userAnswerOriginalIndex = displayedAnswer.originalIndex
              THEN IF userAnswerOriginalIndex = correctAnswerIndex
                     THEN "list-group-item-success"
                     ELSE "list-group-item-danger"
              ELSE IF displayedAnswer.originalIndex = correctAnswerIndex
                     THEN IF /\ userAnswerOriginalIndex # -1
                             /\ userAnswerOriginalIndex # Undefined
                            THEN "list-group-item-info"
                            ELSE "list-group-item-secondary"
                     ELSE ""

\* A scoring that counts a picked answer whenever it is flagged correct,
\* also when it is not the first such answer of the question.
RECURSIVE scoreFromAnyCorrect(_, _, _, _)
scoreFromAnyCorrect(questions, userAnswers, originalIndex, calculatedScore) ==
  IF originalIndex >= Len(questions)
    THEN calculatedScore
    ELSE LET answers == questions[originalIndex + 1].answers
             user    == At(userAnswers, originalIndex)
         IN scoreFromAnyCorrect(questions, userAnswers, originalIndex + 1,
              IF user >= 0 /\ user < Len(answers)
                           /\ answers[user + 1].is_correct
                THEN calculatedScore + 1
                ELSE calculatedScore)

\* The forEach of handleFinish (Quiz.tsx 175-184), from question
\* originalIndex on, with calculatedScore so far.
RECURSIVE scoreFrom(_, _, _, _)
scoreFrom(questions, userAnswers, originalIndex, calculatedScore) ==
  IF originalIndex >= Len(questions)
    THEN calculatedScore
    ELSE LET correct == correctAnswerOriginalIndex(questions[originalIndex + 1])
             user    == At(userAnswers, originalIndex)
         IN scoreFrom(questions, userAnswers, originalIndex + 1,
                      IF correct # -1 /\ user # -1 /\ user = correct
                        THEN calculatedScore + 1
                        ELSE calculatedScore)

\* A scoring that leaves out the two "!== -1" tests of Quiz.tsx 181.
calculatedScoreUnguarded(questions, userAnswers) ==
  Cardinality({ i \in 0..(Len(questions) - 1) :
                  At(userAnswers, i) =
                    correctAnswerOriginalIndex(questions[i + 1]) })

calculatedScoreOf(questions, userAnswers) ==
  scoreFrom(questions, userAnswers, 0, 0)

(***************************************************************************)
(* App.tsx: helpers                                                        *)
(***************************************************************************)

NoQuiz == [id |-> NULL, questions |-> <<>>]

\* Array.prototype.find(q => q.id === id) over a QuizData[].
RECURSIVE findQuizFrom(_, _, _)
findQuizFrom(list, id, k) ==
  IF k > Len(list)
    THEN NoQuiz
    ELSE IF list[k].id = id THEN list[k] ELSE findQuizFrom(list, id, k + 1)

findQuiz(list, id) == findQuizFrom(list, id, 1)

\* allKnownQuizzes (App.tsx 1061-1065, 1244-1248)
allKnownQuizzes(guest, user, public) == guest \o user \o public

\* currentQuizData (App.tsx 1469-1475): guest, then user, then public.
currentQuizDataOf(id, guest, user, public) ==
  IF id = NULL
    THEN NoQuiz
    ELSE findQuiz(allKnownQuizzes(guest, user, public), id)

\* The list currentQuizData is taken from: its questions array is a new
\* object whenever that list is replaced by a fetched one.
sourceOf(id, guest, user, public) ==
  IF id = NULL THEN "none"
  ELSE IF findQuiz(guest, id) # NoQuiz THEN "guest"
  ELSE IF findQuiz(user, id) # NoQuiz THEN "user"
  ELSE IF findQuiz(public, id) # NoQuiz THEN "public"
  ELSE "none"

\* Array(questions.length).fill(-1)  (App.tsx 1047)
unanswered(questions) == [i \in 1..Len(questions) |-> -1]

\* An update that forgets the spread of prev: { [quizId]: value }.
withEntryAlone(answers, quizId, value) ==
  [x \in {quizId} |-> value]

\* { ...prev, [quizId]: value }
withEntry(answers, quizId, value) ==
  [x \in (DOMAIN answers) \cup {quizId} |->
     IF x = quizId THEN value ELSE answers[x]]

\* initializeAnswersForQuiz (App.tsx 1042-1049)
initializeAnswersForQuiz(answers, quizId, questions) ==
  withEntry(answers, quizId, unanswered(questions))

\* The session part of the App state, as the setters of one handler leave it.
Session ==
  [currentQuizId |-> currentQuizId,
   allUserAnswers |-> allUserAnswers,
   currentDisplayIndex |-> currentDisplayIndex,
   quizFinished |-> quizFinished,
   currentScore |-> currentScore,
   currentlyDisplayedQuestion |-> currentlyDisplayedQuestion,
   touched |-> FALSE]

\* A reset that forgets setCurrentDisplayIndex(0).
resetQuizStateKeepIndex(s) ==
  [s EXCEPT !.quizFinished = FALSE,
            !.currentScore = 0,
            !.currentlyDisplayedQuestion = NoQuestion]

\* A reset that forgets setCurrentScore(0).
resetQuizStateKeepScore(s) ==
  [s EXCEPT !.currentDisplayIndex = 0,
            !.quizFinished = FALSE,
            !.currentlyDisplayedQuestion = NoQuestion]

\* A reset that also forgets the stored answers of every quiz.
resetQuizStateClearingAnswers(s) ==
  [s EXCEPT !.currentDisplayIndex = 0,
            !.quizFinished = FALSE,
            !.currentScore = 0,
            !.currentlyDisplayedQuestion = NoQuestion,
            !.allUserAnswers = [x \in {} |-> <<>>]]

\* resetQuizState (App.tsx 1034-1040)
resetQuizState(s) ==
  [s EXCEPT !.currentDisplayIndex = 0,
            !.quizFinished = FALSE,
            !.currentScore = 0,
            !.currentlyDisplayedQuestion = NoQuestion]

\* A selection that initializes the answers of the quiz whenever it finds it.
handleSelectQuizAlwaysInit(s, id) ==
  IF id # currentQuizId
    THEN LET r == [resetQuizState(s) EXCEPT !.currentQuizId = id]
             newlySelectedQuiz ==
               findQuiz(allKnownQuizzes(guestQuizzes, userQuizzes,
                                        publicQuizzes), id)
         IN IF id # NULL /\ newlySelectedQuiz # NoQuiz
              THEN [r EXCEPT !.allUserAnswers =
                               initializeAnswersForQuiz(@, id,
                                 newlySelectedQuiz.questions),
                             !.touched = TRUE]
              ELSE r
    ELSE s

\* handleSelectQuiz (App.tsx 1052-1078).  It compares with, and searches,
\* stateRef.current: the state the running event started from.
handleSelectQuiz(s, id) ==
  IF id # currentQuizId
    THEN LET r == [resetQuizState(s) EXCEPT !.currentQuizId = id]
             newlySelectedQuiz ==
               findQuiz(allKnownQuizzes(guestQuizzes, userQuizzes,
                                        publicQuizzes), id)
         IN IF /\ id # NULL
               /\ newlySelectedQuiz # NoQuiz
               /\ \/ id \notin DOMAIN allUserAnswers
                  \/ Len(allUserAnswers[id]) # Len(newlySelectedQuiz.questions)
              THEN [r EXCEPT !.allUserAnswers =
                               initializeAnswersForQuiz(@, id,
                                 newlySelectedQuiz.questions),
                             !.touched = TRUE]
              ELSE r
    ELSE s

\* handleAnswerUpdate (App.tsx 1227-1239)
handleAnswerUpdate(s, quizId, originalQuestionIndex, originalAnswerIndex) ==
  LET currentAnswersForQuiz ==
        IF quizId \in DOMAIN s.allUserAnswers
          THEN s.allUserAnswers[quizId] ELSE <<>>
  IN IF /\ originalQuestionIndex >= 0
        /\ originalQuestionIndex < Len(currentAnswersForQuiz)
       THEN [s EXCEPT !.allUserAnswers =
                        withEntry(@, quizId,
                          [currentAnswersForQuiz
                             EXCEPT ![originalQuestionIndex + 1] =
                                      originalAnswerIndex]),
                      !.touched = TRUE]
       ELSE s

\* A reset of the interaction state that keeps the stored answers.
handleResetKeepAnswers(s, quizId) ==
  LET quizToReset ==
        findQuiz(allKnownQuizzes(guestQuizzes, userQuizzes, publicQuizzes),
                 quizId)
  IN IF quizToReset # NoQuiz THEN resetQuizState(s) ELSE s

\* handleResetQuizAnswers (App.tsx 1241-1257)
handleResetQuizAnswers(s, quizId) ==
  LET quizToReset ==
        findQuiz(allKnownQuizzes(guestQuizzes, userQuizzes, publicQuizzes),
                 quizId)
  IN IF quizToReset # NoQuiz
       THEN resetQuizState(
              [s EXCEPT !.allUserAnswers =
                          initializeAnswersForQuiz(@, quizId,
                                                   quizToReset.questions),
                        !.touched = TRUE])
       ELSE s

\* currentQuizAnswers (App.tsx 1478) is defined: there is data for the
\* selected quiz and the AnswerMap has an entry for it.
hasCurrentQuizAnswers(data, answers) ==
  data # NoQuiz /\ data.id \in DOMAIN answers

\* chatContext (App.tsx 1481-1508) for the reported question: wasCorrect is
\* "true", "false" or "undefined", and correctAnswerText is given by the
\* original index of the answer whose text it is, -1 when it is undefined.
chatContext(finished, data, reported, answers) ==
  [isReviewMode |-> finished,
   wasCorrect |->
     IF reported # NoQuestion /\ hasCurrentQuizAnswers(data, answers)
       THEN LET userAnswerOriginalIndex ==
                  At(answers[data.id], reported.originalIndex)
                userAnswerObject ==
                  findOriginalIndex(reported.answers, userAnswerOriginalIndex)
            IN IF /\ userAnswerOriginalIndex # -1
                  /\ userAnswerOriginalIndex # Undefined
                 THEN IF userAnswerObject # -1
                        THEN IF reported.answers[userAnswerObject + 1]
                                  .is_correct
                               THEN "true" ELSE "false"
                        ELSE "false"
                 ELSE "false"
       ELSE "undefined",
   correctAnswerText |->
     IF reported # NoQuestion
       THEN LET correctAnswerObject == findCorrectFrom(reported.answers, 1)
            IN IF correctAnswerObject # -1
                 THEN reported.answers[correctAnswerObject + 1].originalIndex
                 ELSE -1
       ELSE -1]

(***************************************************************************)
(* Render and effects                                                      *)
(***************************************************************************)

\* The handler's setters, applied.
SetSession(s) ==
  /\ currentQuizId' = s.currentQuizId
  /\ allUserAnswers' = s.allUserAnswers
  /\ currentDisplayIndex' = s.currentDisplayIndex
  /\ quizFinished' = s.quizFinished
  /\ currentScore' = s.currentScore

\* The render condition of the Quiz element (App.tsx 1574, 1581-1584):
\* the routes are rendered, the location is "/", and the selected quiz has
\* data and an answers array.
quizShown(rt, loading, data, answers) ==
  /\ rt = "/"
  /\ ~loading
  /\ data # NoQuiz
  /\ data.id \in DOMAIN answers

\* A key made of the quiz id alone: a toggle then keeps the mounted element.
quizKeyOfIdAlone(shown, data, shuffleQ, shuffleA) ==
  IF shown THEN <<data.id>> ELSE <<>>

\* The key of the Quiz element (App.tsx 1588); <<>> when none is rendered.
quizKey(shown, data, shuffleQ, shuffleA) ==
  IF shown THEN <<data.id, shuffleQ, shuffleA>> ELSE <<>>

\* Effect 3 (Quiz.tsx 131-150): runs when one of its dependencies changed,
\* and then sets the selection to the recomputed position.
Effect3(runs, selected, cdq, cda, userAnswers) ==
  IF runs THEN newSelectedDisplayIndex(cdq, cda, userAnswers) ELSE selected

\* A report that is left out when there is no current question.
Effect2SkippingNull(runs, reported, cdq) ==
  IF runs /\ cdq # NoQuestion THEN cdq ELSE reported

\* Effect 2 (Quiz.tsx 119-126) with handleDisplayedQuestionUpdate
\* (App.tsx 1262-1265): runs when the current question or index changed.
Effect2(runs, reported, cdq) ==
  IF runs THEN cdq ELSE reported

\* React's render of App and Quiz after a handler, with the effects it
\* triggers, up to the state where no effect is pending.
\*   s            the session state the handler set
\*   selected     selectedDisplayAnswerIndex as the handler set it
\*   counter      resetCounter as the handler set it
\*   replaced     the quiz lists the handler replaced by fetched ones
\* A Quiz element whose key is new is mounted with fresh local state
\* (Quiz.tsx 67-70); Effect 1 (Quiz.tsx 92-96) then sets the display
\* questions.  A Quiz element that stays runs Effect 1 again when the
\* questions array or resetCounter changed.
Commit(s, selected, counter, replaced) ==
  LET data   == currentQuizDataOf(currentQuizId', guestQuizzes',
                                  userQuizzes', publicQuizzes')
      shown  == quizShown(route', authLoading', data, allUserAnswers')
      key    == quizKey(shown, data, shuffleQuestions', shuffleAnswers')
      src    == sourceOf(currentQuizId, guestQuizzes, userQuizzes,
                         publicQuizzes)
      srcNew == sourceOf(currentQuizId', guestQuizzes', userQuizzes',
                         publicQuizzes')
      mount  == key # mountedKey
      regen  == mount \/ counter # resetCounter
                      \/ srcNew \in replaced \/ srcNew # src
      cdqOld == currentDisplayQuestion(displayQuestions, currentDisplayIndex)
  IN /\ mountedKey' = key
     /\ IF ~shown
          THEN /\ displayQuestions' = <<>>
               /\ currentDisplayAnswers' = <<>>
               /\ selectedDisplayAnswerIndex' = -1
               /\ resetCounter' = 0
               /\ currentlyDisplayedQuestion' = s.currentlyDisplayedQuestion
          ELSE /\ displayQuestions' \in
                    IF regen
                      THEN setupDisplayQuestions(data.questions,
                                                 shuffleQuestions')
                      ELSE {displayQuestions}
               /\ LET cdq == currentDisplayQuestion(displayQuestions',
                                                    currentDisplayIndex')
                      cdqChanged == \/ mount
                                    \/ cdq # cdqOld
                                    \/ regen /\ cdq # NoQuestion
                  IN /\ currentDisplayAnswers' \in
                          IF cdqChanged
                            THEN currentDisplayAnswersOf(cdq, shuffleAnswers')
                            ELSE {currentDisplayAnswers}
                     /\ selectedDisplayAnswerIndex' =
                          Effect3(cdqChanged \/ s.touched
                                    \/ selected # selectedDisplayAnswerIndex,
                                  selected, cdq, currentDisplayAnswers',
                                  allUserAnswers'[data.id])
                     /\ currentlyDisplayedQuestion' =
                          Effect2(cdqChanged
                                    \/ currentDisplayIndex' # currentDisplayIndex,
                                  s.currentlyDisplayedQuestion, cdq)
               /\ resetCounter' = IF mount THEN 0 ELSE counter

\* A render after a handler that touched neither the Quiz element's local
\* state nor the quiz lists.
CommitApp(s) ==
  Commit(s, selectedDisplayAnswerIndex, resetCounter, {})

(***************************************************************************)
(* Init                                                                    *)
(***************************************************************************)

\* The state after App's first render and its mount effect (App.tsx
\* 995-1015, 1394-1401): the auth status request is in flight.
Init ==
  /\ currentUser = NULL
  /\ authLoading = TRUE
  /\ publicQuizzes = <<>>
  /\ userQuizzes = <<>>
  /\ guestQuizzes = <<>>
  /\ currentQuizId = NULL
  /\ allUserAnswers = [x \in {} |-> <<>>]
  /\ shuffleQuestions = TRUE
  /\ shuffleAnswers = TRUE
  /\ currentDisplayIndex = 0
  /\ quizFinished = FALSE
  /\ currentScore = 0
  /\ currentlyDisplayedQuestion = NoQuestion
  /\ route = "/"
  /\ mountedKey = <<>>
  /\ displayQuestions = <<>>
  /\ currentDisplayAnswers = <<>>
  /\ selectedDisplayAnswerIndex = -1
  /\ resetCounter = 0
  /\ authReq = {"status"}
  /\ userReq = {}
  /\ publicReq = {}
  /\ deleteReq = {}
  /\ creator = "idle"
  /\ emitted = <<>>

(***************************************************************************)
(* Quiz.tsx: event handlers.  Each is enabled when the element that calls  *)
(* it is rendered and enabled (Quiz.tsx 222-225, 246-307).                 *)
(***************************************************************************)

QuizMounted == mountedKey # <<>>

quizId == mountedKey[1]

CurrentQuizData ==
  currentQuizDataOf(currentQuizId, guestQuizzes, userQuizzes, publicQuizzes)

\* The props questions and userAnswers of the mounted Quiz (App.tsx 1590-1591)
questions == CurrentQuizData.questions

userAnswers == allUserAnswers[quizId]

CurrentDisplayQuestion ==
  currentDisplayQuestion(displayQuestions, currentDisplayIndex)

\* The quiz card is rendered (Quiz.tsx 222-225).
CardRendered == QuizMounted /\ CurrentDisplayQuestion # NoQuestion

totalQuestions == Len(displayQuestions)

\* A test that forgets the review mode.
answerSelectIgnoredWithoutQuestion(isReviewMode, cdq) ==
  cdq = NoQuestion

\* if (isReviewMode || !currentDisplayQuestion) return;  (Quiz.tsx 155)
answerSelectIgnored(isReviewMode, cdq) ==
  isReviewMode \/ cdq = NoQuestion

\* handleAnswerSelect (Quiz.tsx 154-161), from the click on the answer at
\* display position selectedDisplayIndex (Quiz.tsx 246-251).
HandleAnswerSelect(selectedDisplayIndex) ==
  /\ CardRendered
  /\ selectedDisplayIndex \in 0..(Len(currentDisplayAnswers) - 1)
  /\ IF answerSelectIgnored(quizFinished, CurrentDisplayQuestion)
       THEN /\ emitted' = <<>>
            /\ UNCHANGED << appVars, quizVars, reqVars >>
       ELSE LET selectedDisplayedAnswer ==
                  currentDisplayAnswers[selectedDisplayIndex + 1]
                q == CurrentDisplayQuestion.originalIndex
                a == selectedDisplayedAnswer.originalIndex
                s == handleAnswerUpdate(Session, quizId, q, a)
            IN /\ emitted' = << <<quizId, q, a>> >>
               /\ SetSession(s)
               /\ UNCHANGED << currentUser, authLoading, publicQuizzes,
                               userQuizzes, guestQuizzes, shuffleQuestions,
                               shuffleAnswers, route, reqVars >>
               /\ Commit(s, selectedDisplayIndex, resetCounter, {})

\* A navigation that also leaves the review.
NavigateToActive(index) ==
  LET s == [Session EXCEPT !.currentDisplayIndex = index,
                           !.quizFinished = FALSE]
  IN /\ emitted' = <<>>
     /\ SetSession(s)
     /\ UNCHANGED << currentUser, authLoading, publicQuizzes, userQuizzes,
                     guestQuizzes, shuffleQuestions, shuffleAnswers, route,
                     reqVars >>
     /\ CommitApp(s)

\* setCurrentDisplayIndex(index) from a navigation handler.
Navigate(index) ==
  LET s == [Session EXCEPT !.currentDisplayIndex = index]
  IN /\ emitted' = <<>>
     /\ SetSession(s)
     /\ UNCHANGED << currentUser, authLoading, publicQuizzes, userQuizzes,
                     guestQuizzes, shuffleQuestions, shuffleAnswers, route,
                     reqVars >>
     /\ CommitApp(s)

\* handleNext (Quiz.tsx 164)
handleNext(s, dq) ==
  IF s.currentDisplayIndex < Len(dq) - 1
    THEN [s EXCEPT !.currentDisplayIndex = s.currentDisplayIndex + 1]
    ELSE s

\* A step back without the test of the index.
handlePreviousUnguarded(s) ==
  [s EXCEPT !.currentDisplayIndex = s.currentDisplayIndex - 1]

\* handlePrevious (Quiz.tsx 165)
handlePrevious(s) ==
  IF s.currentDisplayIndex > 0
    THEN [s EXCEPT !.currentDisplayIndex = s.currentDisplayIndex - 1]
    ELSE s

\* handleJumpToQuestion (Quiz.tsx 168-172)
handleJumpToQuestion(s, dq, index) ==
  IF index >= 0 /\ index < Len(dq)
    THEN [s EXCEPT !.currentDisplayIndex = index]
    ELSE s

\* The click on a Next button (Quiz.tsx 295-304).
HandleNext ==
  /\ CardRendered
  /\ IF quizFinished
       THEN currentDisplayIndex < totalQuestions - 1
       ELSE currentDisplayIndex # totalQuestions - 1
  /\ Navigate(handleNext(Session, displayQuestions).currentDisplayIndex)

\* The click on the Previous button (Quiz.tsx 268), disabled at index 0.
HandlePrevious ==
  /\ CardRendered
  /\ currentDisplayIndex # 0
  /\ Navigate(handlePrevious(Session).currentDisplayIndex)

\* The choice of an item of the dropdown (Quiz.tsx 271-289), which lists
\* the indices 0..totalQuestions-1.
HandleJumpToQuestion(index) ==
  /\ CardRendered
  /\ totalQuestions > 0
  /\ index \in 0..(totalQuestions - 1)
  /\ Navigate(handleJumpToQuestion(Session, displayQuestions,
                                   index).currentDisplayIndex)

\* The navigation handlers of a rendered quiz card called as functions, with
\* any index and whatever the buttons show.
CallNext ==
  /\ CardRendered
  /\ Navigate(handleNext(Session, displayQuestions).currentDisplayIndex)

CallPrevious ==
  /\ CardRendered
  /\ Navigate(handlePrevious(Session).currentDisplayIndex)

CallJumpToQuestion(index) ==
  /\ CardRendered
  /\ Navigate(handleJumpToQuestion(Session, displayQuestions,
                                   index).currentDisplayIndex)

\* A finish that leaves the index where it is.
handleFinishKeepIndex(s, qs, answers) ==
  [s EXCEPT !.currentScore = calculatedScoreOf(qs, answers),
            !.quizFinished = TRUE]

\* handleFinish (Quiz.tsx 174-188): setScore, setQuizFinished(true),
\* setCurrentDisplayIndex(0).
handleFinish(s, qs, answers) ==
  [s EXCEPT !.currentScore = calculatedScoreOf(qs, answers),
            !.quizFinished = TRUE,
            !.currentDisplayIndex = 0]

\* A Finish button at the last question in review too.
finishButtonAtLastQuestion(isReviewMode, index, total) ==
  index = total - 1

\* The Finish button is rendered (Quiz.tsx 295-297): not in review, at the
\* last display question.
finishButtonRendered(isReviewMode, index, total) ==
  ~isReviewMode /\ index = total - 1

\* The click on the Finish button.
HandleFinish ==
  /\ CardRendered
  /\ finishButtonRendered(quizFinished, currentDisplayIndex, totalQuestions)
  /\ LET s == handleFinish(Session, questions, userAnswers)
     IN /\ emitted' = <<>>
        /\ SetSession(s)
        /\ UNCHANGED << currentUser, authLoading, publicQuizzes, userQuizzes,
                        guestQuizzes, shuffleQuestions, shuffleAnswers, route,
                        reqVars >>
        /\ CommitApp(s)

\* An End Review button at the last question of an active quiz too.
endReviewButtonAtLastQuestion(isReviewMode, index, total) ==
  ~(index < total - 1)

\* The End Review button is rendered (Quiz.tsx 295-306): in review, when
\* there is no next question.
endReviewButtonRendered(isReviewMode, index, total) ==
  isReviewMode /\ ~(index < total - 1)

\* handleEndReviewClick (Quiz.tsx 190-193), from the End Review button
\* (Quiz.tsx 301-306).
HandleEndReviewClick ==
  /\ CardRendered
  /\ endReviewButtonRendered(quizFinished, currentDisplayIndex,
                             totalQuestions)
  /\ resetCounter < MaxResets
  /\ LET s == handleResetQuizAnswers(Session, quizId)
     IN /\ emitted' = <<>>
        /\ SetSession(s)
        /\ UNCHANGED << currentUser, authLoading, publicQuizzes, userQuizzes,
                        guestQuizzes, shuffleQuestions, shuffleAnswers, route,
                        reqVars >>
        /\ Commit(s, selectedDisplayAnswerIndex, resetCounter + 1, {})

(***************************************************************************)
(* App.tsx and QuizManager: user events                                    *)
(***************************************************************************)

\* The ids the sidebar lists (QuizManager, src/unnamed/part_000).
listedIds ==
  LET all == allKnownQuizzes(guestQuizzes, userQuizzes, publicQuizzes)
  IN { all[k].id : k \in 1..Len(all) }

\* handleQuizSelect of QuizManager (src/unnamed/part_000 244-253): the click
\* on a quiz title calls handleSelectQuiz and navigates to "/".
HandleQuizSelect(id) ==
  /\ id \in listedIds
  /\ LET s == handleSelectQuiz(Session, id)
     IN /\ emitted' = <<>>
        /\ SetSession(s)
        /\ route' = "/"
        /\ UNCHANGED << currentUser, authLoading, publicQuizzes, userQuizzes,
                        guestQuizzes, shuffleQuestions, shuffleAnswers,
                        reqVars >>
        /\ CommitApp(s)

\* handleShuffleQuestionsToggle (App.tsx 1259)
HandleShuffleQuestionsToggle ==
  /\ emitted' = <<>>
  /\ shuffleQuestions' = ~shuffleQuestions
  /\ SetSession(Session)
  /\ UNCHANGED << currentUser, authLoading, publicQuizzes, userQuizzes,
                  guestQuizzes, shuffleAnswers, route, reqVars >>
  /\ CommitApp(Session)

\* handleShuffleAnswersToggle (App.tsx 1260)
HandleShuffleAnswersToggle ==
  /\ emitted' = <<>>
  /\ shuffleAnswers' = ~shuffleAnswers
  /\ SetSession(Session)
  /\ UNCHANGED << currentUser, authLoading, publicQuizzes, userQuizzes,
                  guestQuizzes, shuffleQuestions, route, reqVars >>
  /\ CommitApp(Session)

\* handleEditClick of QuizManager (src/unnamed/part_000 256-266): the owner
\* of a quiz opens it in the editor; the Quiz element is unmounted.
HandleEditClick ==
  /\ currentUser # NULL
  /\ Len(userQuizzes) > 0
  /\ route = "/"
  /\ emitted' = <<>>
  /\ route' = "/edit"
  /\ SetSession(Session)
  /\ UNCHANGED << currentUser, authLoading, publicQuizzes, userQuizzes,
                  guestQuizzes, shuffleQuestions, shuffleAnswers, reqVars >>
  /\ CommitApp(Session)

\* The Cancel button of QuizEditor (QuizEditor.tsx 469).
EditorCancel ==
  /\ route = "/edit"
  /\ ~authLoading /\ currentUser # NULL
  /\ emitted' = <<>>
  /\ route' = "/"
  /\ SetSession(Session)
  /\ UNCHANGED << currentUser, authLoading, publicQuizzes, userQuizzes,
                  guestQuizzes, shuffleQuestions, shuffleAnswers, reqVars >>
  /\ CommitApp(Session)

\* The save of QuizEditor after its PUT succeeded (QuizEditor.tsx 324-326):
\* handleQuizUpdated (App.tsx 1305-1316) starts both fetches, then the
\* editor navigates to "/".  One update is in flight at a time.
EditorSave ==
  /\ route = "/edit"
  /\ ~authLoading /\ currentUser # NULL
  /\ "updated" \notin userReq \cup publicReq
  /\ emitted' = <<>>
  /\ publicReq' = publicReq \cup {"updated"}
  /\ userReq' = userReq \cup {"updated"}
  /\ route' = "/"
  /\ SetSession(Session)
  /\ UNCHANGED << currentUser, authLoading, publicQuizzes, userQuizzes,
                  guestQuizzes, shuffleQuestions, shuffleAnswers, authReq,
                  deleteReq, creator >>
  /\ CommitApp(Session)

(***************************************************************************)
(* App.tsx: continuations of awaited requests                              *)
(***************************************************************************)

\* initialLoad (App.tsx 1403-1438) when GET /api/auth/status has answered
\* (an error counts as "no user"): sets the user and starts the next fetch.
AuthStatusDone(user) ==
  /\ "status" \in authReq
  /\ authReq' = authReq \ {"status"}
  /\ emitted' = <<>>
  /\ currentUser' = user
  /\ IF user # NULL
       THEN /\ userReq' = userReq \cup {"initialLoad"}
            /\ UNCHANGED << publicReq, userQuizzes, guestQuizzes >>
       ELSE /\ publicReq' = publicReq \cup {"initialLoad"}
            /\ userQuizzes' = <<>>
            /\ guestQuizzes' = <<>>
            /\ UNCHANGED userReq
  /\ SetSession(Session)
  /\ UNCHANGED << authLoading, publicQuizzes, shuffleQuestions,
                  shuffleAnswers, route, deleteReq, creator >>
  /\ Commit(Session, selectedDisplayAnswerIndex, resetCounter,
            IF user # NULL THEN {} ELSE {"user", "guest"})

\* The callback handleQuizUpdated runs once both of its fetches have
\* completed (App.tsx 1317-1331), before React renders: it reads stateRef.
quizUpdatedThen(s) ==
  IF currentQuizId # NULL
    THEN LET allQuizzes == publicQuizzes \o userQuizzes
         IN IF findQuiz(allQuizzes, currentQuizId) # NoQuiz
              THEN handleSelectQuiz(s, currentQuizId)
              ELSE handleSelectQuiz(s, NULL)
    ELSE s

\* The id confirmDeleteQuiz selects after its refetch (App.tsx 1365-1368):
\* the first user quiz, else the first public quiz, of stateRef.current.
nextIdAfterDelete ==
  IF Len(userQuizzes) > 0 THEN userQuizzes[1].id
  ELSE IF Len(publicQuizzes) > 0 THEN publicQuizzes[1].id
  ELSE NULL

\* What the caller that awaited fetchUserQuizzes does next with the session,
\* in the same turn: handleQuizUpdated once both of its fetches are done
\* (App.tsx 1317-1331), confirmDeleteQuiz (App.tsx 1365-1370).
afterUserFetch(caller, s1) ==
  IF caller = "updated" /\ "updated" \notin publicReq
    THEN quizUpdatedThen(s1)
    ELSE IF caller = "delete"
           THEN handleSelectQuiz(s1, nextIdAfterDelete)
           ELSE s1

\* initialLoad and handleLoginSuccess go on to fetchPublicQuizzes
\* (App.tsx 1443, 1173).
publicReqAfterUserFetch(caller) ==
  IF caller \in {"initialLoad", "login"}
    THEN publicReq \cup {caller}
    ELSE publicReq

\* An auto-select that does not look at the selected quiz.
autoSelectsUserQuizAlways(selectedId, fetchedQuizzes) ==
  Len(fetchedQuizzes) > 0

\* The test of the finally block of fetchUserQuizzes (App.tsx 1113), on
\* stateRef.current.currentQuizId.
autoSelectsUserQuiz(selectedId, fetchedQuizzes) ==
  selectedId = NULL /\ Len(fetchedQuizzes) > 0

\* The test of the finally block of fetchPublicQuizzes (App.tsx 1143), on
\* stateRef.current.
autoSelectsPublicQuiz(selectedId, fetchedQuizzes, user, userList) ==
  /\ selectedId = NULL
  /\ Len(fetchedQuizzes) > 0
  /\ (user = NULL \/ Len(userList) = 0)

\* fetchUserQuizzes (App.tsx 1083-1118) from the answer of its request on:
\* the list is set, the first quiz is selected when none is, and the caller
\* that awaited it goes on.
FetchUserQuizzesDone(caller, fetchedQuizzes) ==
  /\ caller \in userReq
  /\ userReq' = userReq \ {caller}
  /\ emitted' = <<>>
  /\ userQuizzes' = fetchedQuizzes
  /\ LET s1 == IF autoSelectsUserQuiz(currentQuizId, fetchedQuizzes)
                 THEN handleSelectQuiz(Session, fetchedQuizzes[1].id)
                 ELSE Session
         s2 == afterUserFetch(caller, s1)
     IN /\ SetSession(s2)
        /\ publicReq' = publicReqAfterUserFetch(caller)
        /\ UNCHANGED << currentUser, authLoading, publicQuizzes,
                        guestQuizzes, shuffleQuestions, shuffleAnswers,
                        route, authReq, deleteReq, creator >>
        /\ Commit(s2, selectedDisplayAnswerIndex, resetCounter, {"user"})

\* fetchPublicQuizzes (App.tsx 1120-1148) from the answer of its request on.
FetchPublicQuizzesDone(caller, fetchedQuizzes) ==
  /\ caller \in publicReq
  /\ publicReq' = publicReq \ {caller}
  /\ emitted' = <<>>
  /\ publicQuizzes' = fetchedQuizzes
  /\ LET s1 == IF autoSelectsPublicQuiz(currentQuizId, fetchedQuizzes,
                                        currentUser, userQuizzes)
                 THEN handleSelectQuiz(Session, fetchedQuizzes[1].id)
                 ELSE Session
         s2 == IF caller = "updated" /\ "updated" \notin userReq
                 THEN quizUpdatedThen(s1)
                 ELSE s1
     IN /\ SetSession(s2)
        /\ authLoading' = IF caller \in {"initialLoad", "login"}
                            THEN FALSE ELSE authLoading
        /\ UNCHANGED << currentUser, userQuizzes, guestQuizzes,
                        shuffleQuestions, shuffleAnswers, route, authReq,
                        userReq, deleteReq, creator >>
        /\ Commit(s2, selectedDisplayAnswerIndex, resetCounter, {"public"})

\* fetchUserQuizzes when its request fails (App.tsx 1094-1117): a 401 logs
\* the user out in the frontend and clears the user and guest lists, any
\* other error clears the user list; nothing was fetched, so nothing is
\* auto-selected, and the caller goes on.
FetchUserQuizzesFailed(caller, status) ==
  /\ caller \in userReq
  /\ userReq' = userReq \ {caller}
  /\ emitted' = <<>>
  /\ userQuizzes' = <<>>
  /\ IF status = 401
       THEN currentUser' = NULL /\ guestQuizzes' = <<>>
       ELSE UNCHANGED << currentUser, guestQuizzes >>
  /\ LET s2 == afterUserFetch(caller, Session)
     IN /\ SetSession(s2)
        /\ publicReq' = publicReqAfterUserFetch(caller)
        /\ UNCHANGED << authLoading, publicQuizzes, shuffleQuestions,
                        shuffleAnswers, route, authReq, deleteReq, creator >>
        /\ Commit(s2, selectedDisplayAnswerIndex, resetCounter,
                  IF status = 401 THEN {"user", "guest"} ELSE {"user"})

\* handleLoginSuccess (App.tsx 1153-1167) up to its POST, from the Google
\* button, which is rendered when no user is logged in and nothing is
\* loading (QuizManager, src/unnamed/part_000 360-382).
HandleLoginSuccess ==
  /\ ~authLoading /\ currentUser = NULL
  /\ emitted' = <<>>
  /\ authLoading' = TRUE
  /\ guestQuizzes' = <<>>
  /\ authReq' = authReq \cup {"login"}
  /\ SetSession(Session)
  /\ UNCHANGED << currentUser, publicQuizzes, userQuizzes, shuffleQuestions,
                  shuffleAnswers, route, userReq, publicReq, deleteReq,
                  creator >>
  /\ Commit(Session, selectedDisplayAnswerIndex, resetCounter, {"guest"})

\* handleLoginSuccess from the answer of its POST on (App.tsx 1168-1184):
\* the user is set and the user quizzes are fetched, or the login is undone.
LoginAnswered(user) ==
  /\ "login" \in authReq
  /\ authReq' = authReq \ {"login"}
  /\ emitted' = <<>>
  /\ currentUser' = user
  /\ IF user # NULL
       THEN /\ userReq' = userReq \cup {"login"}
            /\ UNCHANGED << userQuizzes, authLoading >>
       ELSE /\ userQuizzes' = <<>>
            /\ authLoading' = FALSE
            /\ UNCHANGED userReq
  /\ SetSession(Session)
  /\ UNCHANGED << publicQuizzes, guestQuizzes, shuffleQuestions,
                  shuffleAnswers, route, publicReq, deleteReq, creator >>
  /\ Commit(Session, selectedDisplayAnswerIndex, resetCounter,
            IF user # NULL THEN {} ELSE {"user"})

\* handleLoginError (App.tsx 1187-1193), from the Google button.
HandleLoginError ==
  /\ ~authLoading /\ currentUser = NULL
  /\ emitted' = <<>>
  /\ userQuizzes' = <<>>
  /\ guestQuizzes' = <<>>
  /\ SetSession(Session)
  /\ UNCHANGED << currentUser, authLoading, publicQuizzes, shuffleQuestions,
                  shuffleAnswers, route, reqVars >>
  /\ Commit(Session, selectedDisplayAnswerIndex, resetCounter,
            {"user", "guest"})

\* handleLogout (App.tsx 1195-1200) up to its POST, from the Logout button
\* (src/unnamed/part_000 280-291, 370-372), disabled while it runs.
HandleLogout ==
  /\ ~authLoading /\ currentUser # NULL
  /\ "logout" \notin authReq
  /\ emitted' = <<>>
  /\ guestQuizzes' = <<>>
  /\ authReq' = authReq \cup {"logout"}
  /\ SetSession(Session)
  /\ UNCHANGED << currentUser, authLoading, publicQuizzes, userQuizzes,
                  shuffleQuestions, shuffleAnswers, route, userReq, publicReq,
                  deleteReq, creator >>
  /\ Commit(Session, selectedDisplayAnswerIndex, resetCounter, {"guest"})

\* handleLogout from the answer of its POST on (App.tsx 1201-1220): on
\* success and on failure the user and the user quizzes are cleared and the
\* first public quiz of stateRef.current, or none, is selected.
LogoutAnswered(ok) ==
  /\ "logout" \in authReq
  /\ authReq' = authReq \ {"logout"}
  /\ emitted' = <<>>
  /\ currentUser' = NULL
  /\ userQuizzes' = <<>>
  /\ guestQuizzes' = IF ok THEN guestQuizzes ELSE <<>>
  /\ LET firstPublic == IF Len(publicQuizzes) > 0
                          THEN publicQuizzes[1].id ELSE NULL
         s == handleSelectQuiz(Session, firstPublic)
     IN /\ SetSession(s)
        /\ UNCHANGED << authLoading, publicQuizzes, shuffleQuestions,
                        shuffleAnswers, route, userReq, publicReq, deleteReq,
                        creator >>
        /\ Commit(s, selectedDisplayAnswerIndex, resetCounter,
                  IF ok THEN {"user"} ELSE {"user", "guest"})

\* confirmDeleteQuiz (App.tsx 1341-1355) up to its DELETE, for a quiz of
\* the user's list (src/unnamed/part_000 268-270, App.tsx 1334-1339); the
\* Delete button is disabled while a deletion runs (App.tsx 1547).
ConfirmDeleteQuiz(id) ==
  /\ currentUser # NULL
  /\ findQuiz(userQuizzes, id) # NoQuiz
  /\ deleteReq = {} /\ "delete" \notin userReq
  /\ emitted' = <<>>
  /\ deleteReq' = {id}
  /\ UNCHANGED << appVars, quizVars, authReq, userReq, publicReq, creator >>

\* confirmDeleteQuiz from the answer of its DELETE on (App.tsx 1356-1360,
\* 1372-1378): the user quizzes are fetched again, or the error is shown.
DeleteAnswered(ok) ==
  /\ deleteReq # {}
  /\ deleteReq' = {}
  /\ emitted' = <<>>
  /\ userReq' = IF ok THEN userReq \cup {"delete"} ELSE userReq
  /\ UNCHANGED << appVars, quizVars, authReq, publicReq, creator >>

\* handleCreateClick of QuizManager (src/unnamed/part_000 239-242).
HandleCreateClick ==
  /\ route # "/create"
  /\ emitted' = <<>>
  /\ route' = "/create"
  /\ SetSession(Session)
  /\ UNCHANGED << currentUser, authLoading, publicQuizzes, userQuizzes,
                  guestQuizzes, shuffleQuestions, shuffleAnswers, reqVars >>
  /\ CommitApp(Session)

\* The submit of QuizCreator (src/unnamed/part_001 28-43) by a guest.
CreatorSubmit ==
  /\ route = "/create" /\ ~authLoading
  /\ currentUser = NULL
  /\ creator = "idle"
  /\ Len(guestQuizzes) < MaxGuestQuizzes
  /\ emitted' = <<>>
  /\ creator' = "generating"
  /\ UNCHANGED << appVars, quizVars, authReq, userReq, publicReq, deleteReq >>

\* QuizCreator from the answer of its POST on (src/unnamed/part_001 45-57)
\* with handleQuizCreated for a quiz without userId (App.tsx 1283-1288):
\* the quiz is added to the guest list and selected.
GuestQuizCreated(createdQuiz) ==
  /\ creator = "generating"
  /\ creator' = "redirecting"
  /\ emitted' = <<>>
  /\ guestQuizzes' = Append(guestQuizzes, createdQuiz)
  /\ LET s == handleSelectQuiz(Session, createdQuiz.id)
     IN /\ SetSession(s)
        /\ UNCHANGED << currentUser, authLoading, publicQuizzes, userQuizzes,
                        shuffleQuestions, shuffleAnswers, route, authReq,
                        userReq, publicReq, deleteReq >>
        /\ Commit(s, selectedDisplayAnswerIndex, resetCounter, {"guest"})

\* QuizCreator when its POST fails (src/unnamed/part_001 59-72) with
\* handleQuizCreated(null) (App.tsx 1296-1301).
QuizCreationFailed ==
  /\ creator = "generating"
  /\ creator' = "idle"
  /\ emitted' = <<>>
  /\ UNCHANGED << appVars, quizVars, authReq, userReq, publicReq, deleteReq >>

\* The timer of QuizCreator (src/unnamed/part_001 53-57): navigate('/').
CreatorRedirect ==
  /\ creator = "redirecting"
  /\ creator' = "idle"
  /\ emitted' = <<>>
  /\ route' = "/"
  /\ SetSession(Session)
  /\ UNCHANGED << currentUser, authLoading, publicQuizzes, userQuizzes,
                  guestQuizzes, shuffleQuestions, shuffleAnswers, authReq,
                  userReq, publicReq, deleteReq >>
  /\ CommitApp(Session)


(***************************************************************************)
(* Specification                                                           *)
(***************************************************************************)

AnswerSelect ==
  \E p \in 0..(Len(currentDisplayAnswers) - 1) : HandleAnswerSelect(p)

JumpToQuestion ==
  \E index \in 0..(totalQuestions - 1) : HandleJumpToQuestion(index)

QuizSelect == \E id \in QuizIds : HandleQuizSelect(id)

AuthStatus == \E user \in Users \cup {NULL} : AuthStatusDone(user)

FetchUserQuizzes ==
  \E caller \in userReq \ {"delete"}, fetched \in UserResponses :
    FetchUserQuizzesDone(caller, fetched)

FetchPublicQuizzes ==
  \E caller \in publicReq, fetched \in PublicResponses :
    FetchPublicQuizzesDone(caller, fetched)

Next ==
  \/ AnswerSelect
  \/ HandleNext
  \/ HandlePrevious
  \/ JumpToQuestion
  \/ HandleFinish
  \/ HandleEndReviewClick
  \/ QuizSelect
  \/ HandleShuffleQuestionsToggle
  \/ HandleShuffleAnswersToggle
  \/ HandleEditClick
  \/ EditorCancel
  \/ EditorSave
  \/ AuthStatus
  \/ FetchUserQuizzes
  \/ FetchPublicQuizzes

Spec == Init /\ [][Next]_vars

\* The program with the navigation handlers also called directly.
CallJump == \E index \in -1..MaxJump : CallJumpToQuestion(index)

NextWithCalls ==
  \/ Next
  \/ CallNext
  \/ CallPrevious
  \/ CallJump

SpecWithCalls == Init /\ [][NextWithCalls]_vars

\* The program with the account operations of App: login, logout, failing
\* fetches, the deletion of a quiz and the generation of a guest quiz, next
\* to the selection of quizzes and the initial load.
FetchUserQuizzesFails ==
  \E caller \in userReq, status \in FailureStatuses :
    FetchUserQuizzesFailed(caller, status)

FetchUserQuizzesAfterDelete ==
  \E fetched \in DeletedResponses : FetchUserQuizzesDone("delete", fetched)

Login == \E user \in Users \cup {NULL} : LoginAnswered(user)

Logout == \E ok \in BOOLEAN : LogoutAnswered(ok)

DeleteQuiz == \E id \in QuizIds : ConfirmDeleteQuiz(id)

Delete == \E ok \in BOOLEAN : DeleteAnswered(ok)

NextAccount ==
  \/ QuizSelect
  \/ AuthStatus
  \/ FetchUserQuizzes
  \/ FetchPublicQuizzes
  \/ FetchUserQuizzesFails
  \/ FetchUserQuizzesAfterDelete
  \/ HandleLoginSuccess
  \/ Login
  \/ HandleLoginError
  \/ HandleLogout
  \/ Logout
  \/ DeleteQuiz
  \/ Delete
  \/ HandleCreateClick
  \/ CreatorSubmit
  \/ GuestQuizCreated(QuizG)
  \/ QuizCreationFailed
  \/ CreatorRedirect

SpecAccount == Init /\ [][NextAccount]_vars

(***************************************************************************)
(* Properties                                                              *)
(***************************************************************************)

\* The original indices of the answers of a canonical question that are
\* flagged correct.
CorrectIndices(question) ==
  { k \in 0..(Len(question.answers) - 1) : question.answers[k + 1].is_correct }

\* The number of original question indices i for which answers[i] is the
\* canonical correct-answer index of question i (the least flagged index).
MatchingAnswers(qs, answers) ==
  Cardinality({ i \in 0..(Len(qs) - 1) :
                  \E k \in CorrectIndices(qs[i + 1]) :
                    /\ At(answers, i) = k
                    /\ \A m \in CorrectIndices(qs[i + 1]) : k <= m })

\* C1: the score Finish sets is the number of original question indices whose
\* AnswerMap entry equals the original index of that question's correct
\* answer, whatever the shuffle flags and the display order are.
C1_ScoreCountsCanonicalMatches ==
  [][ HandleFinish => currentScore' = MatchingAnswers(questions, userAnswers)
    ]_vars

\* A finished quiz "A" with one right and one wrong answer, shown with its
\* second question first.
C1_Witness ==
  /\ QuizMounted /\ quizId = "A" /\ quizFinished
  /\ questions = QuizA.questions
  /\ userAnswers = <<1, 1>>
  /\ currentScore = 1
  /\ displayQuestions[1].originalIndex = 1

\* The display positions that hold the persisted answer of the current
\* display question.
PersistedPositions ==
  { k \in 0..(Len(currentDisplayAnswers) - 1) :
      currentDisplayAnswers[k + 1].originalIndex =
        At(userAnswers, CurrentDisplayQuestion.originalIndex) }

\* C2: in every settled state the visual selection is the display position
\* of the answer whose originalIndex is the AnswerMap entry of the current
\* display question, and -1 when that entry is unanswered or not found.
C2_SelectionFollowsAnswerMap ==
  QuizMounted =>
    IF PersistedPositions = {}
      THEN selectedDisplayAnswerIndex = -1
      ELSE PersistedPositions = {selectedDisplayAnswerIndex}

\* An answered question whose answers are shown in exchanged order: the
\* selection is at position 0, which holds the answer of original index 1.
C2_Witness ==
  /\ QuizMounted /\ shuffleAnswers /\ ~quizFinished
  /\ Len(currentDisplayAnswers) = 2
  /\ currentDisplayAnswers[1].originalIndex = 1
  /\ At(userAnswers, CurrentDisplayQuestion.originalIndex) = 1
  /\ selectedDisplayAnswerIndex = 0

\* C3: SelectAnswer(p) on an active quiz with a current display question
\* writes AnswerMap[quizId][q] := a for the original indices q, a of the
\* question and of the answer at p, emits exactly the update (quizId, q, a),
\* and leaves every other entry, displayIndex, finished and score unchanged.
C3_SelectAnswerWrites ==
  [][ \A p \in 0..(Len(currentDisplayAnswers) - 1) :
        (~quizFinished /\ HandleAnswerSelect(p)) =>
          LET q == CurrentDisplayQuestion.originalIndex
              a == currentDisplayAnswers[p + 1].originalIndex
          IN /\ DOMAIN allUserAnswers' = DOMAIN allUserAnswers
             /\ At(allUserAnswers'[quizId], q) = a
             /\ \A x \in DOMAIN allUserAnswers :
                  /\ Len(allUserAnswers'[x]) = Len(allUserAnswers[x])
                  /\ \A i \in 0..(Len(allUserAnswers[x]) - 1) :
                       (x # quizId \/ i # q) =>
                          At(allUserAnswers'[x], i) = At(allUserAnswers[x], i)
             /\ emitted' = << <<quizId, q, a>> >>
             /\ UNCHANGED << currentDisplayIndex, quizFinished, currentScore >>
    ]_vars

\* seq holds each of the original indices 0..n-1 exactly once.
EachIndexOnce(seq, n) ==
  /\ Len(seq) = n
  /\ \A i \in 0..(n - 1) :
       Cardinality({ k \in 1..Len(seq) : seq[k].originalIndex = i }) = 1

\* C4: the display sequence has the length of the canonical question list
\* and holds each original question index exactly once, and the display
\* answers of every question hold each original answer index of that
\* question exactly once, in every reachable state.
C4_ProjectionBijection ==
  QuizMounted =>
    /\ EachIndexOnce(displayQuestions, Len(questions))
    /\ \A k \in 1..Len(displayQuestions) :
         EachIndexOnce(displayQuestions[k].answers,
           Len(questions[displayQuestions[k].originalIndex + 1].answers))
    /\ CurrentDisplayQuestion # NoQuestion =>
         EachIndexOnce(currentDisplayAnswers,
           Len(questions[CurrentDisplayQuestion.originalIndex + 1].answers))

\* Both orders exchanged: the second question is shown first, and its second
\* answer is shown first.
C4_Witness ==
  /\ QuizMounted /\ shuffleQuestions /\ shuffleAnswers
  /\ Len(displayQuestions) = 2
  /\ displayQuestions[1].originalIndex = 1
  /\ currentDisplayIndex = 0
  /\ currentDisplayAnswers[1].originalIndex = 1
  /\ currentDisplayAnswers[2].originalIndex = 0

\* C5: whenever a quiz with at least one question is loaded,
\* 0 <= displayIndex < number of display questions.
C5_DisplayIndexInRange ==
  (QuizMounted /\ Len(questions) >= 1) =>
    (0 <= currentDisplayIndex /\ currentDisplayIndex < Len(displayQuestions))

\* C6: the AnswerMap entry of the selected quiz is as long as the quiz's
\* canonical question list, in every reachable state.
C6_EntryLengthIsQuestionCount ==
  (CurrentQuizData # NoQuiz /\ currentQuizId \in DOMAIN allUserAnswers) =>
    Len(allUserAnswers[currentQuizId]) = Len(questions)

\* C7: selecting a quiz changes the AnswerMap only by setting the entry of
\* that quiz to all-unanswered, and only when the quiz had no entry or one
\* whose length differs from its question count; an entry of the right
\* length is left as it was.
C7_LoadPreservesAnswers ==
  [][ \A id \in QuizIds :
        HandleQuizSelect(id) =>
          LET quiz == findQuiz(allKnownQuizzes(guestQuizzes, userQuizzes,
                                               publicQuizzes), id)
              n == Len(quiz.questions)
              kept == /\ id \in DOMAIN allUserAnswers
                      /\ Len(allUserAnswers[id]) = n
              fresh == [x \in (DOMAIN allUserAnswers) \cup {id} |->
                          IF x = id THEN [i \in 1..n |-> -1]
                                    ELSE allUserAnswers[x]]
          IN /\ kept => allUserAnswers' = allUserAnswers
             /\ allUserAnswers' \in {allUserAnswers, fresh}
    ]_vars

\* Quiz "A" is selected and shown from its first question, its entry holds
\* an answer, and quiz "B" has an entry too: "B" was selected in between.
C7_Witness ==
  /\ currentQuizId = "A" /\ QuizMounted
  /\ "B" \in DOMAIN allUserAnswers
  /\ \E i \in 1..Len(allUserAnswers["A"]) : allUserAnswers["A"][i] # -1
  /\ currentDisplayIndex = 0 /\ ~quizFinished /\ currentScore = 0

\* C8, as stated: after the user selects a quiz, the one already selected
\* included, displayIndex = 0, finished = false and score = 0.
C8_EveryLoadResets ==
  [][ \A id \in QuizIds :
        HandleQuizSelect(id) =>
          (currentDisplayIndex' = 0 /\ ~quizFinished' /\ currentScore' = 0)
    ]_vars

\* C8: after the user selects a quiz other than the selected one,
\* displayIndex = 0, finished = false and score = 0; selecting the selected
\* quiz again leaves the three as they were.
C8_LoadOfAnotherQuizResets ==
  [][ \A id \in QuizIds :
        HandleQuizSelect(id) =>
          IF id # currentQuizId
            THEN currentDisplayIndex' = 0 /\ ~quizFinished' /\ currentScore' = 0
            ELSE UNCHANGED << currentDisplayIndex, quizFinished, currentScore >>
    ]_vars

\* Quiz "B" is selected and reset while the entry of quiz "A", which was
\* selected before, is fully answered.
C8_Witness ==
  /\ currentQuizId = "B" /\ QuizMounted
  /\ "A" \in DOMAIN allUserAnswers
  /\ \A i \in 1..Len(allUserAnswers["A"]) : allUserAnswers["A"][i] # -1
  /\ currentDisplayIndex = 0 /\ ~quizFinished /\ currentScore = 0

\* A toggle of one of the two shuffle switches.
ShuffleToggle ==
  HandleShuffleQuestionsToggle \/ HandleShuffleAnswersToggle

\* C9, as stated: a toggle of a shuffle flag while a quiz is loaded leaves
\* displayIndex = 0, finished = false and score = 0.
C9_ToggleResetsSession ==
  [][ (QuizMounted /\ ShuffleToggle) =>
        (currentDisplayIndex' = 0 /\ ~quizFinished' /\ currentScore' = 0)
    ]_vars

\* C9: a toggle of a shuffle flag while a quiz is loaded mounts a new Quiz
\* element, which regenerates the display order for the new flags, and
\* leaves displayIndex, finished, score and the AnswerMap as they were.
C9_ToggleRegeneratesOnly ==
  [][ (QuizMounted /\ ShuffleToggle) =>
        /\ mountedKey' # mountedKey
        /\ displayQuestions' \in
             setupDisplayQuestions(questions, shuffleQuestions')
        /\ ~shuffleQuestions' =>
             displayQuestions' = processedQuestions(questions)
        /\ UNCHANGED << currentDisplayIndex, quizFinished, currentScore,
                        allUserAnswers >>
    ]_vars

\* Both switches are off, which takes a toggle of each, and the quiz is in
\* review at its second question with a score.
C9_Witness ==
  /\ QuizMounted /\ ~shuffleQuestions /\ ~shuffleAnswers
  /\ quizFinished /\ currentDisplayIndex = 1 /\ currentScore = 1

\* C10: Finish on an active quiz ends with finished = true and
\* displayIndex = 0 and leaves the AnswerMap and the display-question order
\* unchanged.
C10_FinishStartsReview ==
  [][ HandleFinish =>
        /\ quizFinished' /\ currentDisplayIndex' = 0
        /\ allUserAnswers' = allUserAnswers
        /\ displayQuestions' = displayQuestions
    ]_vars

\* A two-question quiz in review at its first display question, unanswered,
\* in shuffled order: Finish was clicked at the second.
C10_Witness ==
  /\ QuizMounted /\ quizFinished /\ currentDisplayIndex = 0
  /\ Len(displayQuestions) = 2
  /\ displayQuestions[1].originalIndex = 1
  /\ userAnswers = <<-1, -1>>
  /\ currentScore = 0

\* C11: Reset, which the review alone offers, leaves the AnswerMap entry of
\* the quiz all-unanswered with one value per question, finished = false,
\* score = 0 and displayIndex = 0, and sets the display sequence to a new
\* projection: with shuffling on, every permutation can be drawn, not the
\* previous one alone.
C11_ResetClearsAndReprojects ==
  /\ [][ HandleEndReviewClick =>
           /\ allUserAnswers'[quizId] = [i \in 1..Len(questions) |-> -1]
           /\ ~quizFinished' /\ currentScore' = 0 /\ currentDisplayIndex' = 0
           /\ displayQuestions' \in
                setupDisplayQuestions(questions, shuffleQuestions)
       ]_vars
  /\ [](ENABLED HandleEndReviewClick =>
          \A d \in setupDisplayQuestions(questions, shuffleQuestions) :
            ENABLED (HandleEndReviewClick /\ displayQuestions' = d))

\* Quiz "A" after a reset: active at its first display question, with a
\* cleared entry and a Quiz element that counted one reset.
C11_Witness ==
  /\ QuizMounted /\ quizId = "A" /\ resetCounter = 1
  /\ questions = QuizA.questions
  /\ userAnswers = <<-1, -1>>
  /\ ~quizFinished /\ currentScore = 0 /\ currentDisplayIndex = 0

\* C12: SelectAnswer in review is a no-op at every display answer position:
\* the AnswerMap, the visual selection, displayIndex, finished and score are
\* unchanged and no answer update is emitted.
C12_SelectAnswerInReviewIsNoOp ==
  [][ \A p \in 0..(Len(currentDisplayAnswers) - 1) :
        (quizFinished /\ HandleAnswerSelect(p)) =>
          /\ UNCHANGED << allUserAnswers, selectedDisplayAnswerIndex,
                          currentDisplayIndex, quizFinished, currentScore >>
          /\ emitted' = <<>>
    ]_vars

\* A review that shows two answers in exchanged order, the second selected.
C12_Witness ==
  /\ CardRendered /\ quizFinished /\ shuffleAnswers
  /\ Len(currentDisplayAnswers) = 2
  /\ currentDisplayAnswers[1].originalIndex = 1
  /\ selectedDisplayAnswerIndex = 1

\* C13: every step, so every operation on the session of the loaded quiz
\* (SelectAnswer, navigation, Finish, Reset, Load), leaves the AnswerMap
\* entry of every quiz other than the loaded one as it was, and the score a
\* Finish sets (the one step that makes finished true) is a function of the
\* questions and the entry of the finished quiz alone.
C13_QuizIsolation ==
  [][ /\ \A x \in DOMAIN allUserAnswers :
           x # currentQuizId' =>
             /\ x \in DOMAIN allUserAnswers'
             /\ allUserAnswers'[x] = allUserAnswers[x]
      /\ (~quizFinished /\ quizFinished') =>
           currentScore' =
             MatchingAnswers(questions, allUserAnswers[currentQuizId])
    ]_vars

\* Quiz "A" is finished with a score while the entry of quiz "B" still holds
\* the answer given before "A" was selected.
C13_Witness ==
  /\ currentQuizId = "A" /\ QuizMounted /\ quizFinished /\ currentScore = 2
  /\ "B" \in DOMAIN allUserAnswers
  /\ allUserAnswers["B"] = <<1>>
  /\ allUserAnswers["A"] = <<1, 0>>

\* Nothing but the record of emitted updates changes.
SessionUnchanged == UNCHANGED << appVars, quizVars >>

\* Only displayIndex changes in the session state.
OnlyIndexMoves ==
  UNCHANGED << allUserAnswers, quizFinished, currentScore, currentQuizId,
               displayQuestions >>

\* What every navigation call leaves alone, and the index it arrives at: a
\* quick test that a step can be such a call.
ArrivesAt(index) ==
  /\ currentDisplayIndex' = index
  /\ UNCHANGED << route, quizFinished, allUserAnswers, shuffleQuestions,
                  shuffleAnswers, reqVars >>

\* What Next, Previous and JumpTo(i) are to do to the session state.
NextDone ==
  IF currentDisplayIndex < Len(displayQuestions) - 1
    THEN currentDisplayIndex' = currentDisplayIndex + 1 /\ OnlyIndexMoves
    ELSE SessionUnchanged

PreviousDone ==
  IF currentDisplayIndex > 0
    THEN currentDisplayIndex' = currentDisplayIndex - 1 /\ OnlyIndexMoves
    ELSE SessionUnchanged

JumpDone(i) ==
  IF i \in 0..(Len(displayQuestions) - 1)
    THEN currentDisplayIndex' = i /\ OnlyIndexMoves
    ELSE SessionUnchanged

\* C14: in Active and in Review, Previous at displayIndex 0, Next at
\* displayIndex count-1 and JumpTo of an index outside 0..count-1 leave the
\* session state unchanged; inside the range Next adds 1, Previous
\* subtracts 1 and JumpTo(i) sets displayIndex to i.  (Each line reads
\* "a call of the handler does what it is to do", with the tests of the
\* step that need no handler first.)
C14_NavigationStaysInRange ==
  [][ /\ \/ NextDone
         \/ ~ArrivesAt(handleNext(Session, displayQuestions)
                         .currentDisplayIndex)
         \/ ~CallNext
      /\ \/ PreviousDone
         \/ ~ArrivesAt(handlePrevious(Session).currentDisplayIndex)
         \/ ~CallPrevious
      /\ \A i \in -1..MaxJump :
           \/ JumpDone(i)
           \/ ~ArrivesAt(handleJumpToQuestion(Session, displayQuestions, i)
                           .currentDisplayIndex)
           \/ ~CallJumpToQuestion(i)
    ]_vars

\* A review of two questions at the second: Next is at its boundary, and
\* Previous and JumpTo(0) are inside the range.
C14_Witness ==
  /\ CardRendered /\ quizFinished
  /\ Len(displayQuestions) = 2 /\ currentDisplayIndex = 1
  /\ currentScore = 1

\* The class the review is to give the answer of original index o of the
\* canonical question q, for the AnswerMap entry e of that question.
ReviewClassOf(q, e, o) ==
  LET isCorrect == /\ o \in CorrectIndices(q)
                   /\ \A m \in CorrectIndices(q) : o <= m
      picked == e = o
      pickedAnother == e >= 0 /\ e # o
  IN CASE picked /\ isCorrect -> "list-group-item-success"
       [] picked /\ ~isCorrect -> "list-group-item-danger"
       [] ~picked /\ isCorrect /\ pickedAnother -> "list-group-item-info"
       [] ~picked /\ isCorrect /\ ~pickedAnother -> "list-group-item-secondary"
       [] OTHER -> ""

\* C15: in review every display answer of the current display question gets
\* the one class its original index, the AnswerMap entry and the correct
\* original index determine, in the order shown and in every other
\* permutation of the display answers.
C15_ReviewClassByOriginalIndex ==
  (CardRendered /\ quizFinished) =>
    LET cdq == CurrentDisplayQuestion
        q == questions[cdq.originalIndex + 1]
        e == At(userAnswers, cdq.originalIndex)
    IN \A order \in {currentDisplayAnswers} \cup shuffleArray(cdq.answers) :
         \A k \in 1..Len(order) :
           getReviewClass(cdq, questions, userAnswers, order[k]) =
             ReviewClassOf(q, e, order[k].originalIndex)

\* The review of the first question of quiz "A", answered with its wrong
\* answer 0, with the correct answer 1 shown first.
C15_Witness ==
  /\ CardRendered /\ quizFinished
  /\ questions = QuizA.questions
  /\ CurrentDisplayQuestion.originalIndex = 0
  /\ At(userAnswers, 0) = 0
  /\ currentDisplayAnswers[1].originalIndex = 1

\* C16: once the session is in review no step is a Finish, and as long as
\* it stays in review the score is not computed again.
C16_NoFinishInReview ==
  [][ quizFinished =>
        /\ ~HandleFinish
        /\ quizFinished' => currentScore' = currentScore
    ]_vars

\* The review of quiz "B" at its only question, the position where an
\* active quiz shows the Finish button.
C16_Witness ==
  /\ CardRendered /\ quizId = "B" /\ quizFinished
  /\ currentDisplayIndex = Len(displayQuestions) - 1

\* C17: when the display list is empty or has no question at displayIndex,
\* the current display question is null and the quiz offers neither
\* SelectAnswer nor Finish: no such step can change the AnswerMap, finished,
\* score or displayIndex.
C17_NoQuestionNoOperation ==
  (/\ QuizMounted
   /\ \/ Len(displayQuestions) = 0
      \/ currentDisplayIndex < 0
      \/ currentDisplayIndex >= Len(displayQuestions)) =>
    /\ CurrentDisplayQuestion = NoQuestion
    /\ ~ENABLED AnswerSelect
    /\ ~ENABLED HandleFinish

\* Quiz "A" is selected and mounted after every question of it was deleted.
C17_Witness ==
  /\ QuizMounted /\ quizId = "A"
  /\ questions = << >> /\ displayQuestions = << >>
  /\ userAnswers = << >>
  /\ ~quizFinished

\* C18: in every reachable state, 0 <= score <= number of canonical
\* questions of the loaded quiz.
C18_ScoreWithinQuestionCount ==
  QuizMounted => (0 <= currentScore /\ currentScore <= Len(questions))

\* C19: a step that takes the session from review to active is a Reset or
\* the selection of a quiz, and is no Next, Previous, JumpTo, SelectAnswer
\* or Finish.
C19_ReviewEndsByResetOrLoad ==
  [][ (quizFinished /\ ~quizFinished') =>
        /\ HandleEndReviewClick \/ QuizSelect
        /\ ~(\/ HandleNext \/ HandlePrevious \/ JumpToQuestion
             \/ AnswerSelect \/ HandleFinish)
    ]_vars

\* A quiz that was reset from its review and is active again, at its second
\* display question.
C19_Witness ==
  /\ CardRendered /\ resetCounter = 1
  /\ ~quizFinished /\ currentDisplayIndex = 1

\* C20: whenever finished is false the score is 0, and a step that makes
\* finished true or gives the score a new non-zero value is a Finish.
C20_ScoreAndFinishedSetByFinish ==
  /\ [](~quizFinished => currentScore = 0)
  /\ [][ (\/ ~quizFinished /\ quizFinished'
          \/ currentScore' # currentScore /\ currentScore' # 0) =>
           HandleFinish
       ]_vars

\* Quiz "A" was finished with a score and then reset: it is active again
\* with score 0, and one answer is given anew.
C20_Witness ==
  /\ QuizMounted /\ quizId = "A" /\ resetCounter = 1
  /\ ~quizFinished /\ currentScore = 0
  /\ questions = QuizA.questions
  /\ userAnswers = <<1, -1>>

\* The AnswerMap entry of quiz id is absent or has another length than the
\* question list of the quiz.
EntryMismatch(id) ==
  LET quiz == findQuiz(allKnownQuizzes(guestQuizzes, userQuizzes,
                                       publicQuizzes), id)
  IN /\ quiz # NoQuiz
     /\ \/ id \notin DOMAIN allUserAnswers
        \/ Len(allUserAnswers[id]) # Len(quiz.questions)

\* The AnswerMap entry of quiz x is after the step what it was before.
EntryKept(x) ==
  /\ x \in DOMAIN allUserAnswers
  /\ x \in DOMAIN allUserAnswers'
  /\ allUserAnswers'[x] = allUserAnswers[x]

\* C21: every AnswerMap entry survives every step (the toggles of the two
\* shuffle flags with their remounts, the regeneration of the display order,
\* the navigation, Finish, the refetches) but three: a SelectAnswer on the
\* active quiz and a Reset change the entry of the loaded quiz, and the
\* selection of a quiz whose entry is absent or of another length sets the
\* entry of that quiz.
C21_AnswerMapSurvives ==
  [][ \A x \in (DOMAIN allUserAnswers) \cup (DOMAIN allUserAnswers') :
        \/ EntryKept(x)
        \/ x = currentQuizId /\ ~quizFinished /\ AnswerSelect
        \/ x = currentQuizId /\ HandleEndReviewClick
        \/ x # currentQuizId /\ EntryMismatch(x) /\ HandleQuizSelect(x)
    ]_vars

\* Quiz "A", fully answered, at its second question after both shuffle
\* switches were turned off and quiz "B" was answered in between.
C21_Witness ==
  /\ QuizMounted /\ quizId = "A"
  /\ ~shuffleQuestions /\ ~shuffleAnswers
  /\ currentDisplayIndex = 1
  /\ allUserAnswers["A"] = <<0, 1>>
  /\ "B" \in DOMAIN allUserAnswers /\ allUserAnswers["B"] = <<0>>

\* No request is in flight: the program waits for the user.
Quiescent ==
  /\ authReq = {} /\ userReq = {} /\ publicReq = {}
  /\ deleteReq = {} /\ creator # "generating"

\* C22: once the effects and requests have settled, a selected quiz that is
\* in one of the quiz lists has an AnswerMap entry with one value per
\* question, so that the quiz is displayed on the main route.
C22_SelectedQuizHasEntry ==
  (Quiescent /\ currentQuizId # NULL /\ CurrentQuizData # NoQuiz) =>
    /\ currentQuizId \in DOMAIN allUserAnswers
    /\ Len(allUserAnswers[currentQuizId]) = Len(questions)
    /\ route = "/" => QuizMounted

\* The original indices of the questions that can count: the AnswerMap entry
\* holds an answer and the question has an answer flagged correct.
Countable(qs, answers) ==
  { i \in 0..(Len(qs) - 1) :
      At(answers, i) >= 0 /\ CorrectIndices(qs[i + 1]) # {} }

\* C23: the score a Finish sets (Finish is the step that makes finished
\* true) counts no question whose AnswerMap entry is the unanswered value -1
\* and no question without an answer flagged correct, whatever was picked
\* for it: it is at most the number of the other questions, and it is 0
\* when there is none.
C23_UnansweredNeverCounts ==
  [][ (~quizFinished /\ quizFinished') =>
        /\ currentScore' <= Cardinality(Countable(questions, userAnswers))
        /\ currentScore' >= 0
    ]_vars

\* Quiz "B", whose question has no correct answer, finished unanswered: the
\* entry and the correct-answer lookup are both -1, and the score is 0.
C23_Witness ==
  /\ QuizMounted /\ quizId = "B" /\ quizFinished
  /\ correctAnswerOriginalIndex(questions[1]) = -1
  /\ userAnswers = <<-1>>
  /\ currentScore = 0

\* C24: every Reset (the one step that adds 1 to the reset counter of the
\* Quiz element) starts in review at the last display position; Finish is
\* offered only on an active quiz at the last display position; and an
\* active quiz offers no Reset.
C24_ResetOnlyFromReview ==
  /\ [][ \/ resetCounter' # resetCounter + 1
         \/ ~HandleEndReviewClick
         \/ /\ quizFinished
            /\ currentDisplayIndex = totalQuestions - 1
       ]_vars
  /\ [][ HandleEndReviewClick => resetCounter' = resetCounter + 1 ]_vars
  /\ [](ENABLED HandleFinish =>
          ~quizFinished /\ currentDisplayIndex = totalQuestions - 1)
  /\ [](~quizFinished => ~ENABLED HandleEndReviewClick)

\* Quiz "B" after a Reset from its review: active again, unanswered, at
\* its only question, where Finish is offered.
C24_Witness ==
  /\ CardRendered /\ quizId = "B" /\ resetCounter = 1
  /\ ~quizFinished /\ userAnswers = <<-1>>
  /\ currentDisplayIndex = totalQuestions - 1

\* C25: in every review state the score is the number of canonical
\* questions of the loaded quiz whose AnswerMap entry is the correct original
\* answer index of the question.
C25_ReviewScoreIsCurrent ==
  (QuizMounted /\ quizFinished) =>
    currentScore = MatchingAnswers(questions, userAnswers)

\* Question i of the loaded quiz is counted by the loop of handleFinish.
CountedByFinish(i) ==
  scoreFrom(questions, userAnswers, i, 0)
    - scoreFrom(questions, userAnswers, i + 1, 0) = 1

\* The display answers of display question dq whose review class is in
\* classes.
AnswersStyled(dq, classes) ==
  { a \in 1..Len(dq.answers) :
      getReviewClass(dq, questions, userAnswers, dq.answers[a]) \in classes }

\* C26: in review, for every display question of the loaded quiz, the
\* question is counted by Finish exactly when one of its display answers is
\* styled as picked and correct, and when the question has an answer
\* flagged correct exactly one display answer carries a correct-answer
\* marker (picked and correct, correct while another was picked, correct
\* while none was picked).
C26_ScoreAgreesWithStyling ==
  (QuizMounted /\ quizFinished) =>
    \A k \in 1..Len(displayQuestions) :
      LET dq == displayQuestions[k]
      IN /\ CountedByFinish(dq.originalIndex) <=>
              AnswersStyled(dq, {"list-group-item-success"}) # {}
         /\ CorrectIndices(questions[dq.originalIndex + 1]) # {} =>
              Cardinality(AnswersStyled(dq, {"list-group-item-success",
                                             "list-group-item-info",
                                             "list-group-item-secondary"}))
                = 1

\* The review of quiz "A" as edited, whose question has two answers flagged
\* correct: the second was picked, which is not the one Finish compares with.
C26_Witness ==
  /\ CardRendered /\ quizFinished
  /\ questions = QuizAEdited.questions
  /\ At(userAnswers, 0) = 1
  /\ currentScore = 0

\* The context the chat is given in the current state.
ChatContext ==
  chatContext(quizFinished, CurrentQuizData, currentlyDisplayedQuestion,
              allUserAnswers)

\* C27: when the reported question is the one on display, the reported
\* wasCorrect is true exactly when the AnswerMap entry of the question is an
\* answer and is the canonical correct-answer index Finish compares with,
\* and the reported correct-answer text is the text of the answer at that
\* index.
C27_WasCorrectAgreesWithScoring ==
  (/\ CardRendered
   /\ currentlyDisplayedQuestion = CurrentDisplayQuestion) =>
    LET q == CurrentDisplayQuestion.originalIndex
        correct == correctAnswerOriginalIndex(questions[q + 1])
    IN /\ ChatContext.wasCorrect \in {"true", "false"}
       /\ ChatContext.wasCorrect = "true" <=>
            (At(userAnswers, q) # -1 /\ At(userAnswers, q) = correct)
       /\ ChatContext.correctAnswerText = correct

\* C28: in every settled state with a Quiz element, so after every
\* navigation, Finish, Reset, quiz selection, shuffle toggle and refetch, the
\* question reported to App is the display question at displayIndex of the
\* current display sequence, and null when there is none.
C28_ReportedQuestionIsProjection ==
  QuizMounted => currentlyDisplayedQuestion = CurrentDisplayQuestion

\* Quiz "B" after a Reset: resetQuizState set the reported question to null
\* while the same single question stays on display, and it is reported.
C28_Witness ==
  /\ CardRendered /\ quizId = "B" /\ resetCounter = 1
  /\ currentDisplayIndex = 0
  /\ currentlyDisplayedQuestion # NoQuestion
  /\ currentlyDisplayedQuestion.originalIndex = 0

\* The step completes a fetch: a request for a quiz list is answered.
FetchCompletes ==
  \/ \E caller \in userReq : caller \notin userReq'
  \/ \E caller \in publicReq : caller \notin publicReq'

\* C29: a step that completes a fetch of the user or the public list, at
\* whatever point of the session it arrives, leaves the selected quiz,
\* displayIndex, finished, score and the AnswerMap unchanged when a quiz is
\* selected, and when none is it selects nothing or the first fetched quiz;
\* such a step is a completion of fetchUserQuizzes or fetchPublicQuizzes.
C29_FetchKeepsSession ==
  [][ FetchCompletes =>
        /\ currentQuizId # NULL =>
             UNCHANGED << currentQuizId, currentDisplayIndex, quizFinished,
                          currentScore, allUserAnswers >>
        /\ currentQuizId' # currentQuizId =>
             /\ currentQuizId = NULL
             /\ \/ Len(userQuizzes') > 0 /\ currentQuizId' = userQuizzes'[1].id
                \/ Len(publicQuizzes') > 0
                     /\ currentQuizId' = publicQuizzes'[1].id
        /\ FetchUserQuizzes \/ FetchPublicQuizzes
    ]_vars

\* The refetch after an edit of quiz "A" has completed during its review:
\* the list holds the edited quiz, and the session is as it was.
C29_Witness ==
  /\ Quiescent /\ currentQuizId = "A"
  /\ userQuizzes = <<QuizAEdited>>
  /\ "A" \in DOMAIN allUserAnswers
  /\ allUserAnswers["A"] = <<1, 0>>
  /\ quizFinished /\ currentScore = 2 /\ currentDisplayIndex = 1

\* C30: in every quiescent state (no fetch, login, logout, deletion or
\* generation in progress) the selected quiz id is null or the id of a quiz
\* of the guest, user or public list.
C30_SelectedQuizIsListed ==
  Quiescent => (currentQuizId = NULL \/ currentQuizId \in listedIds)

====
